---------------------------- MODULE Spec2Model ----------------------------
(***************************************************************************)
(* Instanced quad rendering (src/src/main.rs): the encoding of meshed      *)
(* quads into InstanceData, the per-frame render-world systems             *)
(* (extraction, queue_custom, prepare_instance_buffers), the pipeline      *)
(* specialization and the DrawMeshInstanced render command.                *)
(***************************************************************************)
EXTENDS Integers, Sequences, FiniteSets, TLC

VARIABLES
    mesherQuads,    \* Mesher::quads after fast_mesh: 6 buckets of raw u64 quads
    instances,      \* the Vec<InstanceData> returned by quads(), or None
    decoded,        \* what the vertex stage has decoded from `instances` so far
    baseResult,     \* the result of MeshPipeline::specialize handed to CustomPipeline::specialize
    specialized,    \* the outcome of CustomPipeline::specialize, or None
    frame,          \* number of the frame being run
    stage,          \* where the frame is: "Update", "Extract", a render set, "Panicked"
    collection,     \* main world: each entity's InstanceMaterialData, or None
    visible,        \* main world: the (entity, view) pairs where the entity is visible
    host,           \* the host renderer's resources of this frame
    extracted,      \* render world: each entity's extracted InstanceMaterialData, or None
    phases,         \* ViewSortedRenderPhases<Transparent3d>: the items of each view
    pipelines,      \* SpecializedMeshPipelines<CustomPipeline> and the PipelineCache
    queueLog,       \* history: key parts and pipeline of every item queue_custom added
    instanceBuffers,\* render world: each entity's InstanceBuffer component, or None
    executed        \* the DrawMeshInstanced::render calls of this frame, in order

quadVars == <<mesherQuads, instances, decoded>>
specVars == <<baseResult, specialized>>
frameVars == <<frame, stage, collection, visible, host, extracted, phases, pipelines,
               queueLog, instanceBuffers, executed>>
vars == <<mesherQuads, instances, decoded, baseResult, specialized,
          frame, stage, collection, visible, host, extracted, phases, pipelines,
          queueLog, instanceBuffers, executed>>

\* Option<T>: None, or Some(x); Unwrap(o) is the x of a Some(x)
None == {}
Some(x) == {x}
Unwrap(o) == CHOOSE x \in o : TRUE

(***************************************************************************)
(* Bounds of the model.                                                    *)
(***************************************************************************)
\* total number of quads the mesher returns over its 6 buckets
MaxQuads == 2

(***************************************************************************)
(* Unsigned machine words as the set of their 1-bit positions, so that     *)
(* shifts, truncations and ors keep the width the code gives them.         *)
(***************************************************************************)
U64Width == 64
U32Width == 32

U64Bits == 0 .. (U64Width - 1)
U32Bits == 0 .. (U32Width - 1)

\* x << n on a u64: bits shifted out at the top are lost
Shl64(x, n) == {b + n : b \in x} \cap U64Bits

\* x >> n on a u64
Shr64(x, n) == {b - n : b \in {c \in x : c >= n}}

\* x >> n on a u32
Shr32(x, n) == {b - n : b \in {c \in x : c >= n}}

\* `x as u32` of a u64: truncation to the low 32 bits
AsU32(x) == x \cap U32Bits

\* `x as u64` of a u32 or usize: zero extension
AsU64(x) == x \cap U64Bits

\* the bits of a natural number below 2^31
NatBits(n) == {i \in 0 .. 30 : (n \div (2 ^ i)) % 2 = 1}

RECURSIVE BitsNat(_)
\* the natural number of a set of bit positions, all below 31
BitsNat(x) ==
    IF x = {} THEN 0
    ELSE LET b == CHOOSE c \in x : TRUE
         IN (2 ^ b) + BitsNat(x \ {b})

(***************************************************************************)
(* quads(): src/src/main.rs 75-100.                                        *)
(***************************************************************************)
\* number of face directions: Mesher::quads is [Vec<u64>; 6]
NumFaces == 6
Faces == 0 .. (NumFaces - 1)

\* the shift that puts the face index into the top 3 bits (line 91)
FaceShift == 61
\* the shift that keeps the high word (line 97)
HighShift == 32

\* line 91 with the shift amount a bug would use: one bit too low
EncodeFaceShift60(face) == Shl64(AsU64(NatBits(face)), FaceShift - 1)

\* line 91: let face = (face as u64) << 61
EncodeFace(face) == Shl64(AsU64(NatBits(face)), FaceShift)

\* line 92: face | quad
EncodeQuad(face, quad) == EncodeFace(face) \cup quad

\* lines 95-98: InstanceData { low: quad as u32, high: (quad >> 32) as u32 }
SplitQuad(quad) == [low |-> AsU32(quad), high |-> AsU32(Shr64(quad, HighShift))]

RECURSIVE FlatMapFaces(_, _)
\* lines 86-93: enumerate the buckets from `face` on and flat_map each into
\* its encoded quads, bucket order and in-bucket order kept
FlatMapFaces(buckets, face) ==
    IF face > NumFaces - 1 THEN <<>>
    ELSE LET qs == buckets[face + 1]
         IN [i \in 1 .. Len(qs) |-> EncodeQuad(face, qs[i])]
            \o FlatMapFaces(buckets, face + 1)

\* lines 85-99: the value quads() returns for the mesher's buckets
quads(buckets) ==
    LET encoded == FlatMapFaces(buckets, 0)
    IN [i \in 1 .. Len(encoded) |-> SplitQuad(encoded[i])]

(***************************************************************************)
(* The decoding the vertex stage does with an instance (the shader of the  *)
(* repository, shaders/voxel_rendering_instancing_poc.wgsl, as specified). *)
(***************************************************************************)
\* encoded = (u64)high << 32 | low
MergeWords(inst) == Shl64(AsU64(inst.high), HighShift) \cup AsU64(inst.low)

\* the face: the top 3 bits; the raw quad: the low 61 bits
DecodeInstance(inst) ==
    LET encoded == MergeWords(inst)
    IN [face |-> BitsNat(Shr64(encoded, FaceShift)),
        raw |-> encoded \cap (0 .. (FaceShift - 1))]

(***************************************************************************)
(* The mesher's output: raw quads are u64 whose low 61 bits are            *)
(* meaningful.  The bit patterns cover zero, both word boundaries, the top *)
(* meaningful bit and the all-ones payload.                                *)
(***************************************************************************)
RawQuads == { {}, {0, 31}, {32, 60}, {0, 31, 32, 60}, 0 .. (FaceShift - 1) }

RECURSIVE TotalLen(_, _)
TotalLen(buckets, i) ==
    IF i > Len(buckets) THEN 0 ELSE Len(buckets[i]) + TotalLen(buckets, i + 1)

EmptyBuckets == [f \in 1 .. NumFaces |-> <<>>]

\* the (face, raw quad) pairs of the buckets, in the order quads() emits them
RECURSIVE SourcePairs(_, _)
SourcePairs(buckets, face) ==
    IF face > NumFaces - 1 THEN <<>>
    ELSE [i \in 1 .. Len(buckets[face + 1]) |-> [face |-> face, raw |-> buckets[face + 1][i]]]
         \o SourcePairs(buckets, face + 1)

QuadsInit ==
    /\ mesherQuads = EmptyBuckets
    /\ instances = None
    /\ decoded = <<>>

\* mesher.fast_mesh (line 83, external): one more quad lands in a bucket
FastMeshPush ==
    /\ instances = None
    /\ TotalLen(mesherQuads, 1) < MaxQuads
    /\ \E f \in Faces, q \in RawQuads :
          mesherQuads' = [mesherQuads EXCEPT ![f + 1] = Append(@, q)]
    /\ UNCHANGED <<instances, decoded>>

\* lines 85-99: the encoding of everything the mesher returned
EncodeQuads ==
    /\ instances = None
    /\ instances' = Some(quads(mesherQuads))
    /\ UNCHANGED <<mesherQuads, decoded>>

\* the vertex stage decodes the next instance of the buffer
VertexDecode ==
    /\ instances # None
    /\ Len(decoded) < Len(Unwrap(instances))
    /\ decoded' = Append(decoded, DecodeInstance(Unwrap(instances)[Len(decoded) + 1]))
    /\ UNCHANGED <<mesherQuads, instances>>

(***************************************************************************)
(* CustomPipeline::specialize: src/src/main.rs 388-417.                    *)
(***************************************************************************)
\* bounds on the descriptors the base mesh pipeline hands over
MaxBaseBuffers == 2
MaxBaseLayouts == 3

\* size_of::<InstanceData>(): two u32 words, repr(C) (lines 280-285)
SizeOfInstanceData == 2 * (U32Width \div 8)

CustomShader == "shaders/voxel_rendering_instancing_poc.wgsl"
MaterialLayout == "material_layout"

\* lines 398-406: the per-instance vertex buffer layout
InstanceVertexBufferLayout ==
    [array_stride |-> SizeOfInstanceData,
     step_mode |-> "Instance",
     attributes |-> <<[format |-> "Uint32x2", offset |-> 0, shader_location |-> 3]>>]

Panic(at) == [kind |-> "Panic", at |-> at]

\* lines 395-416 without the assertion of line 413
SpecializeUnchecked(base) ==
    IF base.kind = "Err" THEN base
    ELSE LET d == base.descriptor
             vertex == [shader_defs |-> d.vertex.shader_defs \o <<"BINDLESS", "VERTEX_COLORS">>,
                        shader |-> CustomShader,
                        buffers |-> Append(d.vertex.buffers, InstanceVertexBufferLayout)]
         IN IF d.fragment = None THEN Panic("fragment.unwrap")
            ELSE [kind |-> "Ok",
                  descriptor |->
                      [vertex |-> vertex,
                       fragment |-> Some([shader_defs |-> Unwrap(d.fragment).shader_defs
                                                            \o <<"BINDLESS", "VERTEX_COLORS">>,
                                          shader |-> CustomShader]),
                       layout |-> Append(d.layout, MaterialLayout)]]

\* lines 388-417, given what self.mesh_pipeline.specialize(key, layout)
\* returned at line 393: `?` hands an error back, the unwrap of line 408 and
\* the assert_eq of line 413 panic, otherwise the descriptor is extended
CustomPipelineSpecialize(base) ==
    IF base.kind = "Err" THEN base
    ELSE LET d == base.descriptor
             vertex == [shader_defs |-> d.vertex.shader_defs \o <<"BINDLESS", "VERTEX_COLORS">>,
                        shader |-> CustomShader,
                        buffers |-> Append(d.vertex.buffers, InstanceVertexBufferLayout)]
         IN IF d.fragment = None THEN Panic("fragment.unwrap")
            ELSE IF Len(d.layout) # 2 THEN Panic("assert_eq layout")
            ELSE [kind |-> "Ok",
                  descriptor |->
                      [vertex |-> vertex,
                       fragment |-> Some([shader_defs |-> Unwrap(d.fragment).shader_defs
                                                            \o <<"BINDLESS", "VERTEX_COLORS">>,
                                          shader |-> CustomShader]),
                       layout |-> Append(d.layout, MaterialLayout)]]

HostLayoutNames == <<"view_layout", "mesh_layout", "extra_layout_a", "extra_layout_b">>
HostVertexBuffer(name) ==
    [array_stride |-> 32, step_mode |-> "Vertex",
     attributes |-> <<[format |-> name, offset |-> 0, shader_location |-> 0]>>]
HostBufferNames == <<HostVertexBuffer("mesh_vertices"), HostVertexBuffer("mesh_extra_a"),
                     HostVertexBuffer("mesh_extra_b")>>

\* the descriptors MeshPipeline::specialize may hand over
BaseDescriptors ==
    {[vertex |-> [shader_defs |-> defs, shader |-> "mesh.wgsl",
                  buffers |-> SubSeq(HostBufferNames, 1, nb)],
      fragment |-> frag,
      layout |-> SubSeq(HostLayoutNames, 1, nl)] :
        defs \in {<<>>, <<"MESH_PIPELINE">>},
        nb \in 0 .. MaxBaseBuffers,
        frag \in {None,
                  Some([shader_defs |-> <<>>, shader |-> "mesh.wgsl"]),
                  Some([shader_defs |-> <<"MESH_PIPELINE">>, shader |-> "mesh.wgsl"])},
        nl \in 0 .. MaxBaseLayouts}

BaseResults ==
    {[kind |-> "Ok", descriptor |-> d] : d \in BaseDescriptors}
        \cup {[kind |-> "Err", error |-> "MissingVertexAttribute"]}

SpecializeInit == baseResult = None /\ specialized = None

\* line 393: the base mesh pipeline answers
MeshPipelineReturns ==
    /\ baseResult = None
    /\ \E r \in BaseResults : baseResult' = Some(r)
    /\ UNCHANGED specialized

\* lines 393-416: the rest of specialize()
SpecializeCall ==
    /\ baseResult # None
    /\ specialized = None
    /\ specialized' = Some(CustomPipelineSpecialize(Unwrap(baseResult)))
    /\ UNCHANGED baseResult


(***************************************************************************)
(* The world the render systems run in.  setup() (lines 104-166) spawns    *)
(* two entities with InstanceMaterialData(quads()), each with a Rectangle  *)
(* mesh of its own, and one camera.                                        *)
(***************************************************************************)
\* number of frames the model runs
MaxFrames == 2
\* largest element count of an InstanceBuffer handed to the draw command directly
MaxInstances == 2

Entities == {"e1", "e2"}
EntityOrder == <<"e1", "e2">>
Views == {"v1", "v2"}
ViewOrder == <<"v1", "v2">>
Meshes == {"m1", "m2"}
\* Mesh3d of each entity (lines 117 and 135)
MeshOf == [e \in Entities |-> IF e = "e1" THEN "m1" ELSE "m2"]

Topologies == {"TriangleList", "LineList"}
\* mesh vertex layouts: the second lacks the position attribute the mesh
\* pipeline needs, so the base specialization fails for it
Layouts == {"position_normal_uv", "normal_uv"}
SampleCounts == {1, 4}

\* the mesh allocator's slices: a Rectangle has 4 vertices and 6 indices
VertexRange == [m \in Meshes |-> IF m = "m1" THEN [start |-> 0, end |-> 4]
                                               ELSE [start |-> 4, end |-> 8]]
IndexRange == [m \in Meshes |-> IF m = "m1" THEN [start |-> 0, end |-> 6]
                                              ELSE [start |-> 6, end |-> 12]]
IndexCount == [m \in Meshes |-> 6]

\* the mesher's buckets for the single solid voxel of quads() (lines 77-83):
\* one quad per face
SingleVoxelBuckets == [f \in 1 .. NumFaces |-> <<{0, 32}>>]

\* what setup() puts into InstanceMaterialData (lines 122 and 140)
SetupCollection == quads(SingleVoxelBuckets)

Toggle(S, x) == IF x \in S THEN S \ {x} ELSE S \cup {x}

(***************************************************************************)
(* Lookups in the host's resources.                                        *)
(***************************************************************************)
\* render_mesh_instances.render_mesh_queue_data(main_entity), lines 311 and
\* 451: the host keeps a record only for an entity that is visible to some
\* view
RenderMeshQueueData(h, vis, e) ==
    IF e \in h.instances /\ (\E v \in Views : <<e, v>> \in vis)
    THEN Some([mesh_asset_id |-> MeshOf[e], translation |-> e])
    ELSE None

\* meshes.get(mesh_asset_id) answering for every mesh id, prepared or not
MeshesGetAlways(h, m) ==
    Some([primitive_topology |-> h.topology[m],
          layout |-> h.layout[m],
          buffer_info |-> IF m \in h.indexed
                          THEN [kind |-> "Indexed", count |-> IndexCount[m],
                                index_format |-> "Uint32"]
                          ELSE [kind |-> "NonIndexed", count |-> 0,
                                index_format |-> "none"]])

\* meshes.get(mesh_asset_id), lines 315 and 455
MeshesGet(h, m) == IF m \in h.meshes THEN MeshesGetAlways(h, m) ELSE None

\* mesh_allocator.mesh_vertex_slice(&id), line 462
MeshVertexSlice(h, m) ==
    IF m \in h.vslices THEN Some([buffer |-> "vertex_slab", range |-> VertexRange[m]])
    ELSE None

\* mesh_allocator.mesh_index_slice(&id), line 477
MeshIndexSlice(h, m) ==
    IF m \in h.islices THEN Some([buffer |-> "index_slab", range |-> IndexRange[m]])
    ELSE None

(***************************************************************************)
(* MeshPipelineKey: a set of flags; `|` is the union.                      *)
(***************************************************************************)
FromMsaaSamples(samples) == {"MSAA_" \o ToString(samples)}
FromHdr(hdr) == IF hdr THEN {"HDR"} ELSE {}
FromPrimitiveTopology(t) == {"TOPOLOGY_" \o t}

\* lines 306-308: msaa_key | from_hdr(view.hdr)
ViewKey(h, v) == FromMsaaSamples(h.samples[v]) \cup FromHdr(v \in h.hdr)

\* the key of lines 318-319 without the topology flag
MeshKeyNoTopology(view_key, mesh) == view_key

\* lines 318-319: view_key | from_primitive_topology(mesh.primitive_topology())
MeshKey(view_key, mesh) == view_key \cup FromPrimitiveTopology(mesh.primitive_topology)

\* self.mesh_pipeline.specialize(key, layout), line 393: the host's mesh
\* pipeline; it fails for a layout without the attributes it needs
HostMeshPipelineSpecialize(key, layout) ==
    IF layout = "normal_uv" THEN [kind |-> "Err", error |-> "MissingVertexAttribute"]
    ELSE [kind |-> "Ok",
          descriptor |->
              [vertex |-> [shader_defs |-> <<>>, shader |-> "mesh.wgsl",
                           buffers |-> <<HostVertexBuffer(layout)>>],
               fragment |-> Some([shader_defs |-> <<>>, shader |-> "mesh.wgsl"]),
               layout |-> SubSeq(HostLayoutNames, 1, 2),
               specialized_for |-> key]]

(***************************************************************************)
(* The host's pipeline cache, pipelines.specialize(...) of lines 320-322:  *)
(* insert-if-absent keyed by (vertex layout, key); a miss runs             *)
(* CustomPipeline::specialize and queues the descriptor, whose position is *)
(* the pipeline id.                                                        *)
(***************************************************************************)
EmptyPipelines == [entries |-> {}, queued |-> <<>>, calls |-> <<>>]

SpecializedMeshPipelinesSpecialize(p, key, layout) ==
    LET hit == {en \in p.entries : en.layout = layout /\ en.key = key}
    IN IF hit # {}
       THEN [kind |-> "Ok", id |-> (CHOOSE en \in hit : TRUE).id, pipelines |-> p]
       ELSE LET r == CustomPipelineSpecialize(HostMeshPipelineSpecialize(key, layout))
                called == [p EXCEPT !.calls = Append(@, [key |-> key, layout |-> layout])]
                id == Len(p.queued) + 1
            IN IF r.kind = "Ok"
               THEN [kind |-> "Ok", id |-> id,
                     pipelines |->
                         [called EXCEPT
                             !.entries = @ \cup {[layout |-> layout, key |-> key, id |-> id]},
                             !.queued = Append(@, r.descriptor)]]
               ELSE [kind |-> r.kind, id |-> 0, pipelines |-> called]

(***************************************************************************)
(* queue_custom: src/src/main.rs 287-335.                                  *)
(***************************************************************************)
\* lines 324-332: the Transparent3d item
PhaseItem(v, e, mesh_instance, pipeline) ==
    [entity |-> e,
     pipeline |-> pipeline,
     draw_function |-> "DrawCustom",
     distance |-> <<v, mesh_instance.translation>>,
     batch_range |-> <<0, 1>>,
     extra_index |-> "None",
     indexed |-> TRUE]

\* the history entry of an added item: the parts its key is made of
LogEntry(h, v, mesh, pipeline) ==
    [samples |-> h.samples[v], hdr |-> v \in h.hdr,
     topology |-> mesh.primitive_topology, layout |-> mesh.layout,
     pipeline |-> pipeline]

\* lines 310-333 with the lookup of line 315 not checked: an entity whose
\* mesh asset is not prepared is queued with the asset's last known data
QueueEntityNoMeshCheck(st, h, vis, v, e) ==
    IF st.panicked THEN st
    ELSE LET mesh_instance == RenderMeshQueueData(h, vis, e)
         IN IF mesh_instance = None THEN st
            ELSE LET mesh == Unwrap(MeshesGetAlways(h, Unwrap(mesh_instance).mesh_asset_id))
                     key == MeshKey(ViewKey(h, v), mesh)
                     r == SpecializedMeshPipelinesSpecialize(st.pipelines, key, mesh.layout)
                 IN IF r.kind # "Ok"
                    THEN [st EXCEPT !.panicked = TRUE, !.pipelines = r.pipelines]
                    ELSE [st EXCEPT
                             !.pipelines = r.pipelines,
                             !.log = @ \cup {LogEntry(h, v, mesh, r.id)},
                             !.phases[v] = Append(@, PhaseItem(v, e, Unwrap(mesh_instance), r.id))]

\* lines 310-333: the body of the loop over the entities for one view.  The
\* two let-else of lines 311-317 `continue`; the unwrap of line 322 panics
\* when specialize returned an error (or panicked itself), and a panic ends
\* the system: nothing after it runs.
QueueEntity(st, h, vis, v, e) ==
    IF st.panicked THEN st
    ELSE LET mesh_instance == RenderMeshQueueData(h, vis, e)
         IN IF mesh_instance = None THEN st
            ELSE LET found == MeshesGet(h, Unwrap(mesh_instance).mesh_asset_id)
                 IN IF found = None THEN st
                    ELSE LET mesh == Unwrap(found)
                             key == MeshKey(ViewKey(h, v), mesh)
                             r == SpecializedMeshPipelinesSpecialize(st.pipelines, key, mesh.layout)
                         IN IF r.kind # "Ok"
                            THEN [st EXCEPT !.panicked = TRUE, !.pipelines = r.pipelines]
                            ELSE [st EXCEPT
                                     !.pipelines = r.pipelines,
                                     !.log = @ \cup {LogEntry(h, v, mesh, r.id)},
                                     !.phases[v] =
                                         Append(@, PhaseItem(v, e, Unwrap(mesh_instance), r.id))]

\* the material_meshes query (line 294): the render-world entities With<InstanceMaterialData>
MaterialMeshes(ex) == SelectSeq(EntityOrder, LAMBDA e : ex[e] # None)

RECURSIVE QueueEntities(_, _, _, _, _)
\* line 310: for (entity, main_entity) in &material_meshes
QueueEntities(st, h, vis, v, es) ==
    IF es = <<>> THEN st
    ELSE QueueEntities(QueueEntity(st, h, vis, v, Head(es)), h, vis, v, Tail(es))

RECURSIVE QueueViews(_, _, _, _, _)
\* lines 300-334: for (view, msaa) in &views; a view without a transparent
\* phase is passed over (lines 301-304)
QueueViews(st, h, vis, ex, vs) ==
    IF vs = <<>> THEN st
    ELSE LET v == Head(vs)
             next == IF v \notin h.phases THEN st
                     ELSE QueueEntities(st, h, vis, v, MaterialMeshes(ex))
         IN QueueViews(next, h, vis, ex, Tail(vs))

\* lines 287-335: the whole system
QueueCustomResult(ph, p, log, h, vis, ex) ==
    QueueViews([phases |-> ph, pipelines |-> p, log |-> log, panicked |-> FALSE],
               h, vis, ex, ViewOrder)

(***************************************************************************)
(* prepare_instance_buffers: src/src/main.rs 343-360.                      *)
(***************************************************************************)
\* lines 350-358: the InstanceBuffer made from an InstanceMaterialData; the
\* buffer holds the bytes of the slice, `length` its element count.
\* created_in is history: the frame that made the buffer.
NewInstanceBuffer(instance_data, f) ==
    [buffer |-> instance_data, length |-> Len(instance_data), created_in |-> f]

\* lines 349-359, and the commands applied when the set is flushed: every
\* entity with InstanceMaterialData gets a new InstanceBuffer
PrepareInstanceBuffersResult(bufs, ex, f) ==
    [e \in Entities |->
        IF ex[e] # None THEN Some(NewInstanceBuffer(Unwrap(ex[e]), f)) ELSE bufs[e]]

(***************************************************************************)
(* DrawMeshInstanced::render: src/src/main.rs 440-494.                     *)
(***************************************************************************)
\* `x as u32` of a usize, and u32 addition: the low 32 bits
UsizeAsU32(n) == BitsNat(NatBits(n) \cap U32Bits)
AddU32(a, b) == BitsNat(NatBits(a + b) \cap U32Bits)
\* `x as i32` of a u32: bit 31 is the sign
U32AsI32(n) ==
    LET b == NatBits(n)
    IN IF (U32Width - 1) \in b THEN BitsNat(b \ {U32Width - 1}) - 2147483647 - 1
       ELSE BitsNat(b)

Skip(cmds, bound) == [result |-> "Skip", cmds |-> cmds, bound |-> bound]
Success(cmds, bound) == [result |-> "Success", cmds |-> cmds, bound |-> bound]

SetVertexBuffer(slot, buffer) ==
    [op |-> "set_vertex_buffer", slot |-> slot, buffer |-> buffer]
SetIndexBuffer(buffer, format) ==
    [op |-> "set_index_buffer", slot |-> 0, buffer |-> <<buffer, format>>]

\* lines 483-487 with the instance range of a single instance
DrawIndexedOneInstance(index_slice, count, vertex_slice, instance_buffer) ==
    [op |-> "draw_indexed",
     range |-> [start |-> index_slice.range.start,
                end |-> AddU32(index_slice.range.start, count)],
     base_vertex |-> U32AsI32(vertex_slice.range.start),
     instances |-> [start |-> 0, end |-> 1]]

\* lines 483-487: pass.draw_indexed(start..start + count, start as i32, 0..length as u32)
DrawIndexed(index_slice, count, vertex_slice, instance_buffer) ==
    [op |-> "draw_indexed",
     range |-> [start |-> index_slice.range.start,
                end |-> AddU32(index_slice.range.start, count)],
     base_vertex |-> U32AsI32(vertex_slice.range.start),
     instances |-> [start |-> 0, end |-> UsizeAsU32(instance_buffer.length)]]

\* line 490: pass.draw(vertex_buffer_slice.range, 0..length as u32)
Draw(vertex_slice, instance_buffer) ==
    [op |-> "draw",
     range |-> vertex_slice.range,
     base_vertex |-> 0,
     instances |-> [start |-> 0, end |-> UsizeAsU32(instance_buffer.length)]]

\* lines 471-493 with a missing index slice falling back to a direct draw
DrawBranchFallback(h, mesh_id, gpu_mesh, vertex_slice, instance_buffer, binds) ==
    IF gpu_mesh.buffer_info.kind = "Indexed" /\ MeshIndexSlice(h, mesh_id) # None
    THEN LET index_slice == Unwrap(MeshIndexSlice(h, mesh_id))
         IN Success(binds \o <<SetIndexBuffer(index_slice.buffer,
                                                  gpu_mesh.buffer_info.index_format),
                                   DrawIndexed(index_slice, gpu_mesh.buffer_info.count,
                                               vertex_slice, instance_buffer)>>,
                    Some(instance_buffer))
    ELSE Success(Append(binds, Draw(vertex_slice, instance_buffer)), Some(instance_buffer))

\* lines 471-493: the match on gpu_mesh.buffer_info
DrawBranch(h, mesh_id, gpu_mesh, vertex_slice, instance_buffer, binds) ==
    IF gpu_mesh.buffer_info.kind = "Indexed"
    THEN LET found == MeshIndexSlice(h, mesh_id)
         IN IF found = None THEN Skip(binds, Some(instance_buffer))
            ELSE LET index_slice == Unwrap(found)
                 IN Success(binds \o <<SetIndexBuffer(index_slice.buffer,
                                                          gpu_mesh.buffer_info.index_format),
                                           DrawIndexed(index_slice, gpu_mesh.buffer_info.count,
                                                       vertex_slice, instance_buffer)>>,
                            Some(instance_buffer))
    ELSE Success(Append(binds, Draw(vertex_slice, instance_buffer)), Some(instance_buffer))

\* lines 440-494: the commands recorded on the pass and the result; `bound`
\* is the InstanceBuffer bound at line 469, if the call got that far
DrawMeshInstancedRender(item, instance_buffer, h, vis) ==
    LET mesh_instance == RenderMeshQueueData(h, vis, item.entity)
    IN IF mesh_instance = None THEN Skip(<<>>, None)
       ELSE LET mesh_id == Unwrap(mesh_instance).mesh_asset_id
                gpu_mesh == MeshesGet(h, mesh_id)
            IN IF gpu_mesh = None THEN Skip(<<>>, None)
               ELSE IF instance_buffer = None THEN Skip(<<>>, None)
               ELSE LET vertex_slice == MeshVertexSlice(h, mesh_id)
                    IN IF vertex_slice = None THEN Skip(<<>>, None)
                       ELSE DrawBranch(h, mesh_id, Unwrap(gpu_mesh), Unwrap(vertex_slice),
                                       Unwrap(instance_buffer),
                                       <<SetVertexBuffer(0, Unwrap(vertex_slice).buffer),
                                         SetVertexBuffer(1, "instance data buffer")>>)

\* the draw calls among the commands of one render call
DrawCalls(cmds) == SelectSeq(cmds, LAMBDA c : c.op \in {"draw", "draw_indexed"})

(***************************************************************************)
(* The render schedule: CustomMaterialPlugin::build (lines 260-273) puts   *)
(* queue_custom into QueueMeshes and prepare_instance_buffers into         *)
(* PrepareResources; the host runs the sets in this order and executes the *)
(* phase items in Render.                                                  *)
(***************************************************************************)
RenderSchedule == <<"QueueMeshes", "PrepareResources", "Render", "Cleanup">>

\* line 269
QueueCustomSet == "QueueMeshes"

\* prepare_instance_buffers placed after the draw
PrepareInstanceBuffersLate == "Cleanup"

\* line 270
PrepareInstanceBuffersSet == "PrepareResources"

DrawSet == "Render"

ActiveSets == {QueueCustomSet, PrepareInstanceBuffersSet, DrawSet}

\* the first set after position i that has one of these systems; the frame
\* is over when there is none
StageAfter(i) ==
    LET later == {j \in (i + 1) .. Len(RenderSchedule) : RenderSchedule[j] \in ActiveSets}
    IN IF later = {} THEN "Update"
       ELSE RenderSchedule[CHOOSE j \in later : \A k \in later : j <= k]

NextStage(s) == StageAfter(CHOOSE i \in 1 .. Len(RenderSchedule) : RenderSchedule[i] = s)

\* the items of all phases in the order they are executed, each with its view
RECURSIVE ItemsOf(_, _)
ItemsOf(ph, vs) ==
    IF vs = <<>> THEN <<>>
    ELSE [i \in 1 .. Len(ph[Head(vs)]) |-> [view |-> Head(vs), item |-> ph[Head(vs)][i]]]
         \o ItemsOf(ph, Tail(vs))

AllItems == ItemsOf(phases, ViewOrder)

(***************************************************************************)
(* The frame.                                                              *)
(***************************************************************************)
\* after setup(): everything loaded, every entity visible, one camera
\* (Msaa::Sample4, no HDR) with a transparent phase
HostInit ==
    [instances |-> Entities, meshes |-> Meshes, vslices |-> Meshes, islices |-> Meshes,
     indexed |-> Meshes,
     topology |-> [m \in Meshes |-> "TriangleList"],
     layout |-> [m \in Meshes |-> "position_normal_uv"],
     phases |-> {"v1"}, hdr |-> {},
     samples |-> [v \in Views |-> 4]]

EmptyPhases == [v \in Views |-> <<>>]

FrameInit ==
    /\ frame = 0
    /\ stage = "Update"
    /\ collection = [e \in Entities |-> Some(SetupCollection)]
    /\ visible = Entities \X Views
    /\ host = HostInit
    /\ extracted = [e \in Entities |-> None]
    /\ phases = EmptyPhases
    /\ pipelines = EmptyPipelines
    /\ queueLog = {}
    /\ instanceBuffers = [e \in Entities |-> None]
    /\ executed = <<>>

renderVars == <<extracted, phases, pipelines, queueLog, instanceBuffers, executed>>

BeginFrame ==
    /\ stage = "Update"
    /\ frame < MaxFrames
    /\ stage' = "Extract"
    /\ UNCHANGED <<frame, renderVars>>

\* the main world's Update: nothing the render systems read has changed
UpdateNothing ==
    /\ BeginFrame
    /\ UNCHANGED <<collection, visible, host>>

\* a main-world system has replaced, emptied or removed an InstanceMaterialData
UpdateCollection ==
    /\ BeginFrame
    /\ \E e \in Entities :
          \E c \in {None} \cup {Some(SubSeq(SetupCollection, 1, n)) :
                                  n \in 0 .. Len(SetupCollection)} :
             /\ c # collection[e]
             /\ collection' = [collection EXCEPT ![e] = c]
    /\ UNCHANGED <<visible, host>>

\* the visibility of an entity in a view has changed
UpdateVisibility ==
    /\ BeginFrame
    /\ \E e \in Entities, v \in Views : visible' = Toggle(visible, <<e, v>>)
    /\ UNCHANGED <<collection, host>>

\* a mesh instance, a prepared mesh or an allocator slice has come or gone
UpdateResources ==
    /\ BeginFrame
    /\ \/ \E e \in Entities : host' = [host EXCEPT !.instances = Toggle(@, e)]
       \/ \E m \in Meshes : host' = [host EXCEPT !.meshes = Toggle(@, m)]
       \/ \E m \in Meshes : host' = [host EXCEPT !.vslices = Toggle(@, m)]
       \/ \E m \in Meshes : host' = [host EXCEPT !.islices = Toggle(@, m)]
    /\ UNCHANGED <<collection, visible>>

\* a mesh asset has been replaced by one of another topology, vertex layout
\* or without indices
UpdateMesh ==
    /\ BeginFrame
    /\ \/ \E m \in Meshes : \E t \in Topologies \ {host.topology[m]} :
             host' = [host EXCEPT !.topology[m] = t]
       \/ \E m \in Meshes : \E l \in Layouts \ {host.layout[m]} :
             host' = [host EXCEPT !.layout[m] = l]
       \/ \E m \in Meshes : host' = [host EXCEPT !.indexed = Toggle(@, m)]
    /\ UNCHANGED <<collection, visible>>

\* a view has got or lost its transparent phase, HDR or its sample count
UpdateView ==
    /\ BeginFrame
    /\ \/ \E v \in Views : host' = [host EXCEPT !.phases = Toggle(@, v)]
       \/ \E v \in Views : host' = [host EXCEPT !.hdr = Toggle(@, v)]
       \/ \E v \in Views : \E n \in SampleCounts \ {host.samples[v]} :
             host' = [host EXCEPT !.samples[v] = n]
    /\ UNCHANGED <<collection, visible>>

\* ExtractComponentPlugin::<InstanceMaterialData> (lines 248-256, 262): the
\* component is cloned into the render world; the host empties the phases
Extract ==
    /\ stage = "Extract"
    /\ extracted' = collection
    /\ phases' = EmptyPhases
    /\ executed' = <<>>
    /\ frame' = frame + 1
    /\ stage' = StageAfter(0)
    /\ UNCHANGED <<collection, visible, host, pipelines, queueLog, instanceBuffers>>

\* queue_custom (lines 287-335)
QueueCustom ==
    /\ stage = QueueCustomSet
    /\ LET r == QueueCustomResult(phases, pipelines, queueLog, host, visible, extracted)
       IN /\ phases' = r.phases
          /\ pipelines' = r.pipelines
          /\ queueLog' = r.log
          /\ stage' = IF r.panicked THEN "Panicked" ELSE NextStage(stage)
    /\ UNCHANGED <<frame, collection, visible, host, extracted, instanceBuffers, executed>>

\* prepare_instance_buffers (lines 343-360)
PrepareInstanceBuffers ==
    /\ stage = PrepareInstanceBuffersSet
    /\ instanceBuffers' = PrepareInstanceBuffersResult(instanceBuffers, extracted, frame)
    /\ stage' = NextStage(stage)
    /\ UNCHANGED <<frame, collection, visible, host, extracted, phases, pipelines,
                   queueLog, executed>>

\* the host executes the next phase item: DrawMeshInstanced::render (lines 440-494)
RenderItem ==
    /\ stage = DrawSet
    /\ Len(executed) < Len(AllItems)
    /\ LET x == AllItems[Len(executed) + 1]
           r == DrawMeshInstancedRender(x.item, instanceBuffers[x.item.entity], host, visible)
       IN executed' = Append(executed,
                             [view |-> x.view, entity |-> x.item.entity,
                              result |-> r.result, cmds |-> r.cmds, bound |-> r.bound])
    /\ UNCHANGED <<frame, stage, collection, visible, host, extracted, phases, pipelines,
                   queueLog, instanceBuffers>>

\* every item of the frame has been executed
RenderDone ==
    /\ stage = DrawSet
    /\ Len(executed) = Len(AllItems)
    /\ stage' = NextStage(stage)
    /\ UNCHANGED <<frame, collection, visible, host, extracted, phases, pipelines,
                   queueLog, instanceBuffers, executed>>

(***************************************************************************)
(* Specifications.                                                         *)
(***************************************************************************)
Init == QuadsInit /\ SpecializeInit /\ FrameInit

\* the frames of the application
Next ==
    \/ UpdateNothing /\ UNCHANGED <<quadVars, specVars>>
    \/ UpdateCollection /\ UNCHANGED <<quadVars, specVars>>
    \/ UpdateVisibility /\ UNCHANGED <<quadVars, specVars>>
    \/ UpdateResources /\ UNCHANGED <<quadVars, specVars>>
    \/ UpdateMesh /\ UNCHANGED <<quadVars, specVars>>
    \/ UpdateView /\ UNCHANGED <<quadVars, specVars>>
    \/ Extract /\ UNCHANGED <<quadVars, specVars>>
    \/ QueueCustom /\ UNCHANGED <<quadVars, specVars>>
    \/ PrepareInstanceBuffers /\ UNCHANGED <<quadVars, specVars>>
    \/ RenderItem /\ UNCHANGED <<quadVars, specVars>>
    \/ RenderDone /\ UNCHANGED <<quadVars, specVars>>

Spec == Init /\ [][Next]_vars

\* quads() on what the mesher returns, and the decoding of its instances
SpecQuadsNext ==
    \/ FastMeshPush /\ UNCHANGED <<specVars, frameVars>>
    \/ EncodeQuads /\ UNCHANGED <<specVars, frameVars>>
    \/ VertexDecode /\ UNCHANGED <<specVars, frameVars>>

SpecQuads == Init /\ [][SpecQuadsNext]_vars

\* CustomPipeline::specialize on what the base mesh pipeline may return
SpecSpecializeNext ==
    \/ MeshPipelineReturns /\ UNCHANGED <<quadVars, frameVars>>
    \/ SpecializeCall /\ UNCHANGED <<quadVars, frameVars>>

SpecSpecialize == Init /\ [][SpecSpecializeNext]_vars

\* the draw command on its own: the phase items, resources and instance
\* buffers it may be handed
DrawHosts ==
    {[HostInit EXCEPT !.instances = i, !.meshes = m, !.vslices = vs,
                      !.islices = is, !.indexed = ix] :
        i \in SUBSET Entities, m \in SUBSET Meshes, vs \in SUBSET Meshes,
        is \in SUBSET Meshes, ix \in SUBSET Meshes}

DrawBuffers ==
    {None} \cup {Some(NewInstanceBuffer(SubSeq(SetupCollection, 1, n), 1)) :
                    n \in 0 .. MaxInstances}

DrawItem(v, e) == PhaseItem(v, e, [mesh_asset_id |-> MeshOf[e], translation |-> e], 1)

DrawPhases ==
    {[v \in Views |-> IF v = "v1" THEN <<DrawItem(v, "e1"), DrawItem(v, "e2")>> ELSE <<>>],
     [v \in Views |-> IF v = "v1" THEN <<DrawItem(v, "e2")>> ELSE <<DrawItem(v, "e1")>>]}

DrawInit ==
    /\ frame = 1
    /\ stage = DrawSet
    /\ collection = [e \in Entities |-> Some(SetupCollection)]
    /\ visible = Entities \X Views
    /\ host \in DrawHosts
    /\ extracted = collection
    /\ phases \in DrawPhases
    /\ pipelines = EmptyPipelines
    /\ queueLog = {}
    /\ instanceBuffers \in [Entities -> DrawBuffers]
    /\ executed = <<>>

SpecDrawNext ==
    \/ RenderItem /\ UNCHANGED <<quadVars, specVars>>
    \/ RenderDone /\ UNCHANGED <<quadVars, specVars>>

SpecDrawInit == QuadsInit /\ SpecializeInit /\ DrawInit

SpecDraw == SpecDrawInit /\ [][SpecDrawNext]_vars

(***************************************************************************)
(* The claims.                                                             *)
(***************************************************************************)
\* C1: every instance quads() emits decodes back to the face of its bucket
\* and to the raw quad the mesher returned, in the mesher's order; the top 3
\* bits of its high word are the face index.
C1_RoundTrip ==
    instances # None =>
        LET src == SourcePairs(mesherQuads, 0)
            out == Unwrap(instances)
        IN /\ Len(out) = Len(src)
           /\ \A i \in 1 .. Len(out) :
                 /\ DecodeInstance(out[i]) = src[i]
                 /\ BitsNat(Shr32(out[i].high, U32Width - 3)) = src[i].face
           /\ \A i \in 1 .. Len(decoded) : decoded[i] = src[i]

\* an instance of face 5 with bits at both word boundaries has been decoded
C1_Witness ==
    /\ instances # None
    /\ \E i \in 1 .. Len(decoded) :
          /\ decoded[i].face = 5
          /\ decoded[i].raw = {0, 31, 32, 60}
          /\ Unwrap(instances)[i].low = {0, 31}
          /\ Unwrap(instances)[i].high = {0, 28, 29, 31}

\* C8: specialize returns Ok only with the base descriptor's vertex buffers
\* plus the one per-instance layout (stride 8, Uint32x2 at location 3) and
\* with exactly 3 bind-group layouts, the material layout at slot 2; a base
\* descriptor without exactly 2 bind-group layouts makes it panic; a base
\* error is returned as it is.
C8_SpecializeContract ==
    specialized # None =>
        LET out == Unwrap(specialized)
            base == Unwrap(baseResult)
        IN /\ out.kind \in {"Ok", "Err", "Panic"}
           /\ out.kind = "Ok" =>
                 LET d == out.descriptor
                     b == base.descriptor
                     n == Len(d.vertex.buffers)
                 IN /\ base.kind = "Ok"
                    /\ n = Len(b.vertex.buffers) + 1
                    /\ \A i \in 1 .. (n - 1) : d.vertex.buffers[i] = b.vertex.buffers[i]
                    /\ d.vertex.buffers[n].step_mode = "Instance"
                    /\ d.vertex.buffers[n].array_stride = 8
                    /\ d.vertex.buffers[n].attributes
                           = <<[format |-> "Uint32x2", offset |-> 0, shader_location |-> 3]>>
                    /\ Len(d.layout) = 3
                    /\ d.layout[3] = MaterialLayout
                    /\ SubSeq(d.layout, 1, 2) = b.layout
           /\ (base.kind = "Ok" /\ Len(base.descriptor.layout) # 2) => out.kind = "Panic"
           /\ base.kind = "Err" => out = base

\* the assertion of line 413 has fired on a base descriptor that has a
\* fragment stage and 3 bind-group layouts
C8_Witness ==
    /\ specialized # None
    /\ Unwrap(specialized).kind = "Panic"
    /\ Unwrap(baseResult).kind = "Ok"
    /\ Len(Unwrap(baseResult).descriptor.layout) = 3
    /\ Unwrap(baseResult).descriptor.fragment # None


\* an entity's mesh instance and mesh asset both resolve in this frame
Resolved(e) ==
    /\ e \in host.instances
    /\ \E v \in Views : <<e, v>> \in visible
    /\ MeshOf[e] \in host.meshes

\* every lookup of the draw command resolves for the entity
LookupsPresent(e) ==
    /\ Resolved(e)
    /\ instanceBuffers[e] # None
    /\ MeshOf[e] \in host.vslices
    /\ MeshOf[e] \in host.indexed => MeshOf[e] \in host.islices

\* the positions of the items of entity e in the phase of view v
ItemsFor(v, e) == {i \in 1 .. Len(phases[v]) : phases[v][i].entity = e}

\* the render calls made for entity e in view v
ExecutedFor(v, e) ==
    {i \in 1 .. Len(executed) : executed[i].view = v /\ executed[i].entity = e}

\* C2: a render call returns Skip and issues no draw call when one of its
\* entity's lookups is absent, and returns Success with one draw call when
\* all are present, whatever happened to the other items; every item of the
\* frame is executed, in order.
C2_SkipIsIsolated ==
    /\ Len(executed) <= Len(AllItems)
    /\ stage # DrawSet => Len(executed) = Len(AllItems)
    /\ \A i \in 1 .. Len(executed) :
          LET x == executed[i]
          IN /\ x.entity = AllItems[i].item.entity
             /\ x.view = AllItems[i].view
             /\ x.result = (IF LookupsPresent(x.entity) THEN "Success" ELSE "Skip")
             /\ Len(DrawCalls(x.cmds)) = (IF LookupsPresent(x.entity) THEN 1 ELSE 0)

\* the first item was skipped for its missing index slice, after the vertex
\* buffers were bound, and the second item was drawn
C2_Witness ==
    /\ Len(executed) = 2
    /\ executed[1].result = "Skip"
    /\ executed[1].cmds # <<>>
    /\ MeshOf[executed[1].entity] \notin host.islices
    /\ executed[2].result = "Success"

\* C3: with every lookup resolved the command issues exactly one draw call:
\* for an indexed mesh an indexed draw over start .. start + count of the
\* index slice, base vertex the start of the vertex slice; otherwise a
\* direct draw over the vertex range; the instance range is 0 .. length of
\* the entity's InstanceBuffer.
C3_OneDrawPerEntity ==
    \A i \in 1 .. Len(executed) :
        LET x == executed[i]
            m == MeshOf[x.entity]
            d == DrawCalls(x.cmds)
        IN LookupsPresent(x.entity) =>
              /\ Len(d) = 1
              /\ d[1].instances =
                    [start |-> 0, end |-> Unwrap(instanceBuffers[x.entity]).length]
              /\ IF m \in host.indexed
                 THEN /\ d[1].op = "draw_indexed"
                      /\ d[1].range.start = IndexRange[m].start
                      /\ d[1].range.end - d[1].range.start = IndexCount[m]
                      /\ d[1].base_vertex = VertexRange[m].start
                 ELSE /\ d[1].op = "draw"
                      /\ d[1].range = VertexRange[m]

\* an indexed draw of 2 instances of the second mesh and a direct draw
\* have both been issued
C3_Witness ==
    /\ \E i \in 1 .. Len(executed) :
          /\ executed[i].entity = "e2"
          /\ \E k \in 1 .. Len(executed[i].cmds) :
                /\ executed[i].cmds[k].op = "draw_indexed"
                /\ executed[i].cmds[k].range = [start |-> 6, end |-> 12]
                /\ executed[i].cmds[k].base_vertex = 4
                /\ executed[i].cmds[k].instances = [start |-> 0, end |-> 2]
    /\ \E i \in 1 .. Len(executed) :
          \E k \in 1 .. Len(executed[i].cmds) : executed[i].cmds[k].op = "draw"

\* C4: an empty InstanceMaterialData gives an InstanceBuffer of length 0 and
\* no draw call is issued for its entity.
C4_NoZeroInstanceDraw ==
    /\ \A e \in Entities :
          (stage = DrawSet /\ extracted[e] = Some(<<>>)) =>
              /\ instanceBuffers[e] # None
              /\ Unwrap(instanceBuffers[e]).length = 0
    /\ \A i \in 1 .. Len(executed) :
          extracted[executed[i].entity] = Some(<<>>) => DrawCalls(executed[i].cmds) = <<>>

\* the (view, entity) pairs queue_custom loops over, in its order
RECURSIVE LoopPairs(_, _)
LoopPairs(vs, es) ==
    IF vs = <<>> THEN <<>>
    ELSE (IF Head(vs) \in host.phases
          THEN [i \in 1 .. Len(es) |-> [view |-> Head(vs), entity |-> es[i]]]
          ELSE <<>>)
         \o LoopPairs(Tail(vs), es)

QueuePairs == LoopPairs(ViewOrder, MaterialMeshes(extracted))

\* the pipeline of the entity's key and layout cannot be specialized
SpecializationFails(v, e) ==
    LET m == MeshOf[e]
        key == ViewKey(host, v) \cup FromPrimitiveTopology(host.topology[m])
    IN CustomPipelineSpecialize(HostMeshPipelineSpecialize(key, host.layout[m])).kind # "Ok"

\* the pairs the loop gets through: all of them, or those before the first
\* resolved entity whose specialization fails
PairsDone ==
    LET failing == {i \in 1 .. Len(QueuePairs) :
                       /\ Resolved(QueuePairs[i].entity)
                       /\ SpecializationFails(QueuePairs[i].view, QueuePairs[i].entity)}
    IN IF failing = {} THEN 1 .. Len(QueuePairs)
       ELSE 1 .. ((CHOOSE i \in failing : \A j \in failing : i <= j) - 1)

\* the phases hold what queue_custom made of this frame's resources
QueuedThisFrame == stage \notin {"Extract", QueueCustomSet}

\* C5: an entity whose mesh instance or mesh asset does not resolve gets no
\* item in any view's phase and no render call in that frame; the loop goes
\* on: every pair it gets through is queued exactly when it resolves.
C5_UnresolvedNotQueued ==
    /\ stage # "Extract" =>
          \A v \in Views, e \in Entities :
              ~Resolved(e) => ItemsFor(v, e) = {} /\ ExecutedFor(v, e) = {}
    /\ QueuedThisFrame =>
          \A i \in PairsDone :
              LET x == QueuePairs[i]
              IN Cardinality(ItemsFor(x.view, x.entity)) = (IF Resolved(x.entity) THEN 1 ELSE 0)

\* the first entity's mesh asset is missing, it has no item, and the second
\* entity was queued after it and drawn
C5_Witness ==
    /\ stage = "Update"
    /\ frame >= 1
    /\ extracted["e1"] # None
    /\ "e1" \in host.instances
    /\ MeshOf["e1"] \notin host.meshes
    /\ ItemsFor("v1", "e1") = {}
    /\ ItemsFor("v1", "e2") # {}
    /\ \E i \in ExecutedFor("v1", "e2") : executed[i].result = "Success"

\* C6: an entity whose pipeline specialization fails is passed over: the
\* frame goes on, it gets no item, and the other entities are queued.
C6_SpecializationFailureSkipped ==
    /\ stage # "Panicked"
    /\ QueuedThisFrame =>
          \A i \in 1 .. Len(QueuePairs) :
              LET x == QueuePairs[i]
              IN Cardinality(ItemsFor(x.view, x.entity)) =
                     (IF Resolved(x.entity) /\ ~SpecializationFails(x.view, x.entity)
                      THEN 1 ELSE 0)

\* C7: the pipeline of an item is a function of (sample count, HDR,
\* topology, vertex layout): equal parts give the same pipeline, parts that
\* differ only in the topology give different pipelines, and
\* CustomPipeline::specialize has run at most once per key and layout.
C7_PipelinePerKey ==
    /\ \A x \in queueLog, y \in queueLog :
          (x.samples = y.samples /\ x.hdr = y.hdr /\ x.layout = y.layout) =>
              (x.topology = y.topology <=> x.pipeline = y.pipeline)
    /\ \A i \in 1 .. Len(pipelines.calls), j \in 1 .. Len(pipelines.calls) :
          i # j => pipelines.calls[i] # pipelines.calls[j]
    /\ \A v \in Views : \A i \in 1 .. Len(phases[v]) :
          \E x \in queueLog : x.pipeline = phases[v][i].pipeline

\* two frames have queued items: two of the same key, and one that differs
\* from them only in its topology, after two runs of specialize
C7_Witness ==
    /\ frame = 2
    /\ Len(pipelines.calls) = 2
    /\ Len(phases["v1"]) = 2
    /\ phases["v1"][1].pipeline # phases["v1"][2].pipeline
    /\ \E x \in queueLog, y \in queueLog :
          /\ x.samples = y.samples /\ x.hdr = y.hdr /\ x.layout = y.layout
          /\ x.topology # y.topology

\* C9: an item is queued for (entity, view) only if the entity has an
\* InstanceMaterialData and is visible to that view, at most once, with
\* batch range 0..1.
C9_OnlyVisibleQueued ==
    stage # "Extract" =>
        \A v \in Views : \A i \in 1 .. Len(phases[v]) :
            LET e == phases[v][i].entity
            IN /\ extracted[e] # None
               /\ <<e, v>> \in visible
               /\ phases[v][i].batch_range = <<0, 1>>
               /\ ItemsFor(v, e) = {i}

\* the order of the stages of a frame
StageOrder ==
    {<<"Update", "Extract">>, <<"Extract", "QueueMeshes">>,
     <<"QueueMeshes", "PrepareResources">>, <<"QueueMeshes", "Panicked">>,
     <<"PrepareResources", "Render">>, <<"Render", "Update">>}

\* the InstanceBuffer a render call bound is this frame's, made from this
\* frame's extracted InstanceMaterialData
BoundBuffersAreFresh ==
    \A i \in 1 .. Len(executed) :
        executed[i].bound # None =>
            LET b == Unwrap(executed[i].bound)
                e == executed[i].entity
            IN /\ b.created_in = frame
               /\ extracted[e] # None
               /\ b.length = Len(Unwrap(extracted[e]))
               /\ b.buffer = Unwrap(extracted[e])

\* C10: the stages of a frame run in the order extraction, queueing, buffer
\* preparation, draw; the InstanceBuffer a render call binds was made in the
\* same frame from that frame's extracted data; no InstanceBuffer changes
\* while the draw stage runs.
C10_FreshBuffers ==
    /\ []BoundBuffersAreFresh
    /\ [][stage' # stage => <<stage, stage'>> \in StageOrder]_vars
    /\ [][stage = DrawSet => instanceBuffers' = instanceBuffers]_vars

\* in the second frame both entities were drawn from buffers of new lengths
C10_Witness ==
    /\ frame = 2
    /\ \E i \in 1 .. Len(executed) :
          /\ executed[i].entity = "e1"
          /\ executed[i].result = "Success"
          /\ executed[i].bound # None
          /\ Unwrap(executed[i].bound).length = 3
    /\ \E i \in 1 .. Len(executed) :
          /\ executed[i].entity = "e2"
          /\ executed[i].result = "Success"
          /\ executed[i].bound # None
          /\ Unwrap(executed[i].bound).length = 2

=============================================================================
